---- MODULE Spec2Model ----
(***************************************************************************)
(* Rendezvous (highest-random-weight) hashing and its statistics routine,  *)
(* as implemented in src/algorithms/rendezvous_hashing_main.py (and the    *)
(* older copy src/randevous_hashing_main.py).                              *)
(*                                                                         *)
(* Python strings are sequences of one-character strings: 'A' is <<"A">>,  *)
(* '10' is <<"1", "0">>.  SHA-256 cannot be computed here; the variable     *)
(* sha256 holds the digest of every string hashed so far.  A string hashed *)
(* for the first time gets an arbitrary digest in 0..MaxDigest, which it   *)
(* keeps from then on: the same string always has the same digest, two     *)
(* different strings may have the same one (a collision).                  *)
(***************************************************************************)
EXTENDS Integers, Sequences, FiniteSets

\* ---------------------------------------------------------------- bounds
\* largest digest value; digests range over 0..MaxDigest
MaxDigest == 1
\* longest node list a caller passes
MaxNodes == 3
\* largest num_samples passed to run_statistics; keys are str(0)..str(MaxSamples-1)
MaxSamples == 2
\* largest number of workers a sample batch is sharded across
MaxWorkers == 2

\* ---------------------------------------------------------------- strings
Digits == <<"0", "1", "2", "3", "4", "5", "6", "7", "8", "9">>

\* str(i) for a non-negative int: its decimal digits
RECURSIVE Str(_)
Str(n) == IF n < 10 THEN <<Digits[n + 1]>> ELSE Str(n \div 10) \o <<Digits[(n % 10) + 1]>>

\* the node ids callers use
NodeIds == {<<"A">>, <<"B">>, <<"C">>}

\* the keys callers use: str(i) for the sample numbers
Keys == {Str(n) : n \in 0..(MaxSamples - 1)}

\* every node list of at most MaxNodes ids (a Python list: order matters, repeats allowed)
NodeLists == UNION {[1..len -> NodeIds] : len \in 0..MaxNodes}

\* the value of `assigned_node: Optional[str] = None`; no Python string equals it
None == <<"None">>

VARIABLES
    sha256,          \* the digests, as integers, of the strings hashed so far
    key_id,          \* key_id of the latest rendezvous_hashing call made by a caller
    node_ids,        \* node_ids of the latest call (rendezvous_hashing or run_statistics)
    assigned_node,   \* what that rendezvous_hashing call returned
    exception,       \* exception raised by the latest call, "none" if it returned
    op,              \* how the caller obtained node_ids from the previous call's list
    changed_node,    \* the node id removed from / added to the previous list
    prev_assigned,   \* what the previous call returned for the same key
    pc,              \* position inside run_statistics
    num_samples,     \* argument of run_statistics
    i,               \* loop variable of run_statistics
    nodes_counts,    \* the Counter of run_statistics: node id -> count
    report,          \* locals computed after the loop
    stdout,          \* lines printed by run_statistics
    shard_pc,        \* position of a sharded tally: "idle", "tally" or "merged"
    pending,         \* worker -> the sample numbers of its shard not yet tallied
    worker_counts,   \* worker -> the Counter that worker tallies into
    merged           \* the per-node sum of the workers' Counters

vars == <<sha256, key_id, node_ids, assigned_node, exception, op, changed_node,
          prev_assigned, pc, num_samples, i, nodes_counts, report, stdout,
          shard_pc, pending, worker_counts, merged>>

callerVars == <<op, changed_node, prev_assigned>>
statsVars == <<pc, num_samples, i, nodes_counts, report, stdout>>
shardVars == <<shard_pc, pending, worker_counts, merged>>

\* ---------------------------------------------------------------- hashing
\* int(hashlib.sha256((key_id + node_id).encode('utf-8')).hexdigest(), 16), h being
\* the digests
hash_function(h, k, n) == h[k \o n]

\* highest_weight = -1
InitialHighestWeight == -1

\* LoopBody with the comparison turned round
LoopBodyFlipped(acc, weight, node_id) ==
    IF weight < acc.highest_weight
    THEN [highest_weight |-> weight, assigned_node |-> node_id]
    ELSE acc

\* LoopBody with `highest_weight = weight` dedented out of the if
LoopBodyDedent(acc, weight, node_id) ==
    [highest_weight |-> weight,
     assigned_node |-> IF weight > acc.highest_weight THEN node_id ELSE acc.assigned_node]

\* one iteration of the for loop of rendezvous_hashing
LoopBody(acc, weight, node_id) ==
    IF weight > acc.highest_weight
    THEN [highest_weight |-> weight, assigned_node |-> node_id]
    ELSE acc

\* the for loop over node_ids[idx..], starting from the locals acc
RECURSIVE ForLoop(_, _, _, _, _)
ForLoop(h, k, ns, idx, acc) ==
    IF idx > Len(ns) THEN acc
    ELSE ForLoop(h, k, ns, idx + 1, LoopBody(acc, hash_function(h, k, ns[idx]), ns[idx]))

\* rendezvous_hashing whose loop starts at the second node
rendezvous_hashingSkipFirst(h, k, ns) ==
    ForLoop(h, k, ns, 2, [highest_weight |-> InitialHighestWeight, assigned_node |-> None]).assigned_node

\* rendezvous_hashing(key_id, node_ids): the returned assigned_node
rendezvous_hashing(h, k, ns) ==
    ForLoop(h, k, ns, 1, [highest_weight |-> InitialHighestWeight, assigned_node |-> None]).assigned_node

\* ---------------------------------------------------------------- callers of rendezvous_hashing
Range(s) == {s[x] : x \in 1..Len(s)}

\* the strings rendezvous_hashing(k, ns) hashes
Hashed(k, ns) == {k \o n : n \in Range(ns)}

\* the digests after hashing strs: known digests stay, new strings get any digest
Digests(h, strs) ==
    {[x \in (DOMAIN h) \cup strs |-> IF x \in DOMAIN h THEN h[x] ELSE e[x]] :
        e \in [strs \ (DOMAIN h) -> 0..MaxDigest]}

RemoveAt(s, p) == [x \in 1..(Len(s) - 1) |-> IF x < p THEN s[x] ELSE s[x + 1]]

InsertAt(s, p, e) == [x \in 1..(Len(s) + 1) |-> IF x < p THEN s[x] ELSE IF x = p THEN e ELSE s[x - 1]]

Reorderings(s) == {[x \in 1..Len(s) |-> s[f[x]]] : f \in {g \in [1..Len(s) -> 1..Len(s)] : Range(g) = 1..Len(s)}}

\* a caller assigns key k over the node list ns
Assign(k, ns) ==
    /\ op = "init"
    /\ key_id' = k
    /\ node_ids' = ns
    /\ sha256' \in Digests(sha256, Hashed(k, ns))
    /\ assigned_node' = rendezvous_hashing(sha256', k, ns)
    /\ exception' = "none"
    /\ op' = "assign"
    /\ changed_node' = None
    /\ prev_assigned' = None
    /\ UNCHANGED <<statsVars, shardVars>>

\* the caller drops the node at position p and assigns the same key again
RemoveNode(p) ==
    /\ op # "init"
    /\ p \in 1..Len(node_ids)
    /\ node_ids' = RemoveAt(node_ids, p)
    /\ sha256' \in Digests(sha256, Hashed(key_id, node_ids'))
    /\ assigned_node' = rendezvous_hashing(sha256', key_id, node_ids')
    /\ exception' = "none"
    /\ op' = "remove"
    /\ changed_node' = node_ids[p]
    /\ prev_assigned' = assigned_node
    /\ UNCHANGED <<key_id, statsVars, shardVars>>

\* the caller adds a new node m at position p and assigns the same key again
AddNode(m, p) ==
    /\ op # "init"
    /\ Len(node_ids) < MaxNodes
    /\ m \notin Range(node_ids)
    /\ p \in 1..(Len(node_ids) + 1)
    /\ node_ids' = InsertAt(node_ids, p, m)
    /\ sha256' \in Digests(sha256, Hashed(key_id, node_ids'))
    /\ assigned_node' = rendezvous_hashing(sha256', key_id, node_ids')
    /\ exception' = "none"
    /\ op' = "add"
    /\ changed_node' = m
    /\ prev_assigned' = assigned_node
    /\ UNCHANGED <<key_id, statsVars, shardVars>>

\* the caller passes the same nodes in another order and assigns the same key again
Permute ==
    /\ op # "init"
    /\ \E ns \in Reorderings(node_ids) :
           /\ ns # node_ids
           /\ node_ids' = ns
           /\ sha256' \in Digests(sha256, Hashed(key_id, ns))
           /\ assigned_node' = rendezvous_hashing(sha256', key_id, ns)
    /\ exception' = "none"
    /\ op' = "permute"
    /\ changed_node' = None
    /\ prev_assigned' = assigned_node
    /\ UNCHANGED <<key_id, statsVars, shardVars>>

\* ---------------------------------------------------------------- specification of the assigner
Init ==
    /\ sha256 = <<>>
    /\ key_id = Str(0)
    /\ node_ids = <<>>
    /\ assigned_node = None
    /\ exception = "none"
    /\ op = "init"
    /\ changed_node = None
    /\ prev_assigned = None
    /\ pc = "idle"
    /\ num_samples = 0
    /\ i = 0
    /\ nodes_counts = <<>>
    /\ report = <<>>
    /\ stdout = <<>>
    /\ shard_pc = "idle"
    /\ pending = <<>>
    /\ worker_counts = <<>>
    /\ merged = <<>>

Next ==
    \/ \E k \in Keys, ns \in NodeLists : Assign(k, ns)
    \/ \E p \in 1..MaxNodes : RemoveNode(p)
    \/ \E m \in NodeIds, p \in 1..MaxNodes : AddNode(m, p)
    \/ Permute

Spec == Init /\ [][Next]_vars

\* ---------------------------------------------------------------- run_statistics
\* Counter(node_ids): every distinct id mapped to its number of occurrences in the list
Counter(ns) == [n \in Range(ns) |-> Cardinality({x \in 1..Len(ns) : ns[x] = n})]

\* nodes_counts[k] += 1; a key the Counter lacks reads as 0 and is then stored
CounterAdd(c, k) ==
    [x \in (DOMAIN c) \cup {k} |-> IF x = k THEN (IF k \in DOMAIN c THEN c[k] ELSE 0) + 1 ELSE c[x]]

\* nodes_counts.total(): the sum of all counts
RECURSIVE SumOver(_, _)
SumOver(c, ks) ==
    IF ks = {} THEN 0
    ELSE LET k == CHOOSE x \in ks : TRUE IN c[k] + SumOver(c, ks \ {k})

CounterTotal(c) == SumOver(c, DOMAIN c)

\* max([count for _, count in nodes_counts.items()]) and min(...)
MaxCount(c) == CHOOSE v \in {c[k] : k \in DOMAIN c} : \A k \in DOMAIN c : c[k] <= v
MinCount(c) == CHOOSE v \in {c[k] : k \in DOMAIN c} : \A k \in DOMAIN c : c[k] >= v

\* round(p / q) for q > 0: Python rounds to the nearest integer, halves to the even one
RoundHalfEven(p, q) ==
    LET fl == p \div q
        r == p - fl * q
    IN  IF 2 * r < q THEN fl
        ELSE IF 2 * r > q THEN fl + 1
        ELSE IF fl % 2 = 0 THEN fl ELSE fl + 1

\* diff_percent(observer, expected) with expected = e.num / e.den > 0, in hundredths of
\* a percent: round(100 * (observer - expected) / expected, 2) * 100.  The code computes
\* in binary floating point; the exact quotient is used here, which gives the same two
\* decimals except where the exact value lies on a rounding boundary.
diff_percent(observer, e) == RoundHalfEven(10000 * (observer * e.den - e.num), e.num)

\* run_statistics(ns, n) is called: line 37 builds the Counter
RunStatistics(ns, n) ==
    /\ pc = "idle"
    /\ node_ids' = ns
    /\ num_samples' = n
    /\ nodes_counts' = Counter(ns)
    /\ i' = 0
    /\ exception' = "none"
    /\ pc' = "loop"
    /\ UNCHANGED <<sha256, key_id, assigned_node, callerVars, report, stdout, shardVars>>

\* one iteration of `for i in range(0, num_samples)`
CountSample ==
    /\ pc = "loop"
    /\ i < num_samples
    /\ key_id' = Str(i)
    /\ sha256' \in Digests(sha256, Hashed(Str(i), node_ids))
    /\ assigned_node' = rendezvous_hashing(sha256', Str(i), node_ids)
    /\ nodes_counts' = CounterAdd(nodes_counts, assigned_node')
    /\ i' = i + 1
    /\ UNCHANGED <<node_ids, exception, callerVars, pc, num_samples, report, stdout, shardVars>>

\* after the loop with an empty node list: `num_samples / len(node_ids)` raises
StatisticsNoNodes ==
    /\ pc = "loop"
    /\ i >= num_samples
    /\ Len(node_ids) = 0
    /\ report' = [total |-> CounterTotal(nodes_counts)]
    /\ exception' = "ZeroDivisionError"
    /\ pc' = "raised"
    /\ UNCHANGED <<sha256, key_id, node_ids, assigned_node, callerVars, num_samples, i,
                   nodes_counts, stdout, shardVars>>

\* the locals of lines 43-46
Statistics ==
    [total |-> CounterTotal(nodes_counts),
     expected |-> [num |-> num_samples, den |-> Len(node_ids)],
     max_dist |-> MaxCount(nodes_counts),
     min_dist |-> MinCount(nodes_counts)]

\* line 50
HeaderLine == [nodes |-> Len(node_ids), samples |-> num_samples]

\* after the loop with nodes but no samples: expected is 0.0, the header line is
\* printed, and diff_percent divides by expected while the second line is formatted
StatisticsNoSamples ==
    /\ pc = "loop"
    /\ i >= num_samples
    /\ Len(node_ids) > 0
    /\ num_samples = 0
    /\ report' = Statistics
    /\ stdout' = Append(stdout, HeaderLine)
    /\ exception' = "ZeroDivisionError"
    /\ pc' = "raised"
    /\ UNCHANGED <<sha256, key_id, node_ids, assigned_node, callerVars, num_samples, i,
                   nodes_counts, shardVars>>

\* after the loop with nodes and samples: both lines are printed and the call returns
StatisticsPrinted ==
    /\ pc = "loop"
    /\ i >= num_samples
    /\ Len(node_ids) > 0
    /\ num_samples > 0
    /\ report' = Statistics
    /\ stdout' = stdout \o <<HeaderLine,
                   [expected |-> RoundHalfEven(report'.expected.num, report'.expected.den),
                    min |-> report'.min_dist,
                    min_percent |-> diff_percent(report'.min_dist, report'.expected),
                    max |-> report'.max_dist,
                    max_percent |-> diff_percent(report'.max_dist, report'.expected)]>>
    /\ pc' = "returned"
    /\ UNCHANGED <<sha256, key_id, node_ids, assigned_node, exception, callerVars,
                   num_samples, i, nodes_counts, shardVars>>

NextStats ==
    \/ \E ns \in NodeLists, n \in 0..MaxSamples : RunStatistics(ns, n)
    \/ CountSample
    \/ StatisticsNoNodes
    \/ StatisticsNoSamples
    \/ StatisticsPrinted

SpecStats == Init /\ [][NextStats]_vars

\* ---------------------------------------------------------------- sharded tally
\* The tally of run_statistics (lines 37-40) run by independent workers, each over its
\* own shard of the sample numbers 0..num_samples-1 and into its own Counter, followed
\* by the per-node sum of the workers' Counters.

\* the sample numbers worker w is given by the assignment shard_of
Shard(shard_of, w) == {s \in DOMAIN shard_of : shard_of[s] = w}

\* the ways to split n samples across nw workers: every worker gets a shard, and only
\* a lone worker may get an empty one
Shardings(n, nw) ==
    {f \in [0..(n - 1) -> 1..nw] : nw = 1 \/ \A w \in 1..nw : Shard(f, w) # {}}

\* the batch is split: every worker builds its Counter as line 37 does
StartShards(ns, n, nw, shard_of) ==
    /\ shard_pc = "idle"
    /\ node_ids' = ns
    /\ num_samples' = n
    /\ pending' = [w \in 1..nw |-> Shard(shard_of, w)]
    /\ worker_counts' = [w \in 1..nw |-> Counter(ns)]
    /\ shard_pc' = "tally"
    /\ UNCHANGED <<sha256, key_id, assigned_node, exception, callerVars, pc, i,
                   nodes_counts, report, stdout, merged>>

\* worker w tallies sample s of its shard: lines 39-40
TallySample(w, s) ==
    /\ shard_pc = "tally"
    /\ w \in DOMAIN pending
    /\ s \in pending[w]
    /\ key_id' = Str(s)
    /\ sha256' \in Digests(sha256, Hashed(Str(s), node_ids))
    /\ assigned_node' = rendezvous_hashing(sha256', Str(s), node_ids)
    /\ worker_counts' = [worker_counts EXCEPT ![w] = CounterAdd(@, assigned_node')]
    /\ pending' = [pending EXCEPT ![w] = @ \ {s}]
    /\ UNCHANGED <<node_ids, exception, callerVars, statsVars, shard_pc, merged>>

\* the sum over the workers 1..w of what their Counters hold for key k
RECURSIVE SumWorkers(_, _, _)
SumWorkers(cs, w, k) ==
    IF w = 0 THEN 0
    ELSE (IF k \in DOMAIN cs[w] THEN cs[w][k] ELSE 0) + SumWorkers(cs, w - 1, k)

\* the reduction: per-node sum of the workers' Counters
SumCounters(cs) ==
    [k \in UNION {DOMAIN cs[w] : w \in DOMAIN cs} |-> SumWorkers(cs, Len(cs), k)]

\* every shard is tallied: the workers' Counters are summed
Merge ==
    /\ shard_pc = "tally"
    /\ \A w \in DOMAIN pending : pending[w] = {}
    /\ merged' = SumCounters(worker_counts)
    /\ shard_pc' = "merged"
    /\ UNCHANGED <<sha256, key_id, node_ids, assigned_node, exception, callerVars,
                   statsVars, pending, worker_counts>>

NextShards ==
    \/ \E ns \in NodeLists, n \in 0..MaxSamples, nw \in 1..MaxWorkers :
           \E shard_of \in Shardings(n, nw) : StartShards(ns, n, nw, shard_of)
    \/ \E w \in 1..MaxWorkers, s \in 0..(MaxSamples - 1) : TallySample(w, s)
    \/ Merge

SpecShards == Init /\ [][NextShards]_vars

\* nodes_counts after one sequential pass of lines 37-40 over the samples 0..n-1
RECURSIVE SequentialCounts(_, _, _)
SequentialCounts(h, ns, n) ==
    IF n = 0 THEN Counter(ns)
    ELSE CounterAdd(SequentialCounts(h, ns, n - 1), rendezvous_hashing(h, Str(n - 1), ns))

\* ---------------------------------------------------------------- properties of the assigner
\* a caller has called rendezvous_hashing(key_id, node_ids)
Called == op # "init"

\* the nodes of ns whose score for key k is maximal
MaxScoreNodes(k, ns) ==
    {n \in Range(ns) :
        \A m \in Range(ns) : hash_function(sha256, k, n) >= hash_function(sha256, k, m)}

\* Python's order on str: code point by code point, a proper prefix first
Alphabet == <<"0", "1", "2", "3", "4", "5", "6", "7", "8", "9", "A", "B", "C">>
Ord(c) == CHOOSE x \in 1..Len(Alphabet) : Alphabet[x] = c

RECURSIVE StrLess(_, _)
StrLess(a, b) ==
    IF b = <<>> THEN FALSE
    ELSE IF a = <<>> THEN TRUE
    ELSE IF Ord(Head(a)) # Ord(Head(b)) THEN Ord(Head(a)) < Ord(Head(b))
    ELSE StrLess(Tail(a), Tail(b))

LexSmallest(S) == CHOOSE n \in S : \A m \in S : n = m \/ StrLess(n, m)

HasDuplicates(ns) == \E x, y \in 1..Len(ns) : x # y /\ ns[x] = ns[y]

\* C1: for a non-empty node list, rendezvous_hashing returns a member of the list whose
\* score for the key is at least the score of every node of the list.
C1_WinnerIsMaxMember ==
    (Called /\ node_ids # <<>>) =>
        /\ assigned_node \in Range(node_ids)
        /\ \A n \in Range(node_ids) :
               hash_function(sha256, key_id, assigned_node) >= hash_function(sha256, key_id, n)

\* a call over at least two nodes won by the second node of the list
C1_Witness ==
    /\ op = "assign"
    /\ Len(node_ids) >= 2
    /\ node_ids[1] # node_ids[2]
    /\ assigned_node = node_ids[2]

\* C2: when a node other than the winner is removed from the list, the key keeps its
\* winner; this holds after every removal of a sequence, equal scores included.
C2_RemovalKeepsWinner ==
    (op = "remove" /\ changed_node # prev_assigned) => assigned_node = prev_assigned

\* a non-winning node was removed while another remaining node ties with the winner
C2_Witness ==
    /\ op = "remove"
    /\ changed_node # prev_assigned
    /\ assigned_node = prev_assigned
    /\ \E n \in Range(node_ids) :
           /\ n # assigned_node
           /\ hash_function(sha256, key_id, n) = hash_function(sha256, key_id, assigned_node)

\* C3: when a new node is added to the list, at any position, the key's winner is
\* either the previous winner or the added node.
C3_AdditionMovesOnlyToNewNode ==
    op = "add" => assigned_node \in {prev_assigned, changed_node}

\* a node added behind the head of a non-empty list took the key over
C3_Witness ==
    /\ op = "add"
    /\ prev_assigned # None
    /\ assigned_node = changed_node
    /\ node_ids[1] # changed_node

\* C4: passing the same nodes in another order does not change the winner, also when
\* two nodes have the same score.
C4_OrderIndependent ==
    op = "permute" => assigned_node = prev_assigned

\* C5: among the nodes with the maximal score the winner is the one with the
\* lexicographically smallest id, wherever it stands in the list.
C5_TieBreakLexSmallest ==
    (Called /\ node_ids # <<>>) =>
        assigned_node = LexSmallest(MaxScoreNodes(key_id, node_ids))

\* C6: a call with an empty node list fails with InvalidNodeSet and returns no None.
C6_EmptyNodeSetRejected ==
    (Called /\ node_ids = <<>>) =>
        (exception = "InvalidNodeSet" /\ assigned_node # None)

\* ---------------------------------------------------------------- properties of run_statistics
\* run_statistics has finished, by returning or by raising
Finished == pc \in {"returned", "raised"}

\* the count nodes_counts reports for node n
Observed(n) == IF n \in DOMAIN nodes_counts THEN nodes_counts[n] ELSE 0

\* the number of sample keys str(0)..str(num_samples-1) that node n wins
Wins(n) ==
    Cardinality({s \in 0..(num_samples - 1) : rendezvous_hashing(sha256, Str(s), node_ids) = n})

\* C7: a node list with a repeated id is rejected with InvalidNodeSet before any score
\* is computed and before any sample is counted.
C7_DuplicateIdsRejected ==
    (pc # "idle" /\ HasDuplicates(node_ids)) =>
        (pc = "raised" /\ exception = "InvalidNodeSet" /\ nodes_counts = <<>>)

\* C9: counters start at zero, so after the batch every node's count is the number of
\* sample keys it won and the counts sum to the number of samples.
C9_CountsEqualWins ==
    pc = "returned" =>
        /\ \A n \in Range(node_ids) : Observed(n) = Wins(n)
        /\ CounterTotal(nodes_counts) = num_samples

\* C10: with nodes and zero samples run_statistics completes without error and reports
\* a count of zero for every node.
C10_EmptyBatchZeroCounts ==
    (Finished /\ node_ids # <<>> /\ num_samples = 0) =>
        /\ pc = "returned"
        /\ exception = "none"
        /\ \A n \in Range(node_ids) : Observed(n) = 0

\* C12: for distinct nodes and at least one sample the reported minimum and maximum
\* bracket the expectation num_samples / n, so the minimum's deviation is never
\* positive and the maximum's never negative.
C12_MinMaxBracketExpectation ==
    (pc = "returned" /\ ~HasDuplicates(node_ids)) =>
        /\ Len(node_ids) * report.min_dist <= num_samples
        /\ num_samples <= Len(node_ids) * report.max_dist
        /\ stdout[Len(stdout)].min_percent <= 0
        /\ stdout[Len(stdout)].max_percent >= 0

ShardSumIsSequentialPlusSeeds ==
    shard_pc = "merged" =>
        /\ DOMAIN merged = DOMAIN SequentialCounts(sha256, node_ids, num_samples)
        /\ \A k \in DOMAIN merged :
               merged[k] = SequentialCounts(sha256, node_ids, num_samples)[k]
                           + (Len(worker_counts) - 1)
                             * (IF k \in Range(node_ids) THEN Counter(node_ids)[k] ELSE 0)

====
